---- MODULE Spec2Model ----
(***************************************************************************)
(* A model of the WhatsApp / OpenAI webhook server (src/server.py):        *)
(* the sliding-window rate limiter, the SQLite conversation store with its *)
(* db_lock, the admin command dispatcher, the signature check and the      *)
(* POST /webhook pipeline.                                                 *)
(*                                                                         *)
(* Time.  time.time() (rate limiter, seconds) and datetime.now() (store,   *)
(* hours) are both the wall clock; the two are never compared with each    *)
(* other, so each is a variable of its own, in the unit its consumer       *)
(* compares in.  Both are taken to be non-decreasing.                      *)
(***************************************************************************)
EXTENDS Integers, Sequences, FiniteSets, TLC

(* ------------------------------------------------------------------ *)
(* Settings read from the environment (src/config.py) and model bounds *)
(* ------------------------------------------------------------------ *)

\* Config.RATE_LIMIT_PER_MINUTE (src/config.py:38, default 30): set small here.
RATE_LIMIT_PER_MINUTE == 2

\* Config.MAX_CONVERSATION_LENGTH (src/config.py:36, default 10): set small here.
MAX_CONVERSATION_LENGTH == 2

\* The length of the rate window in seconds (src/server.py:267).
RateWindowSeconds == 60

\* DevelopmentConfig.CONVERSATION_TIMEOUT_HOURS (src/config.py:73), the default
\* configuration of get_config.
CONVERSATION_TIMEOUT_HOURS == 1

\* The last value of time.time() the model explores, in seconds.
MaxTime == 120

\* How far time.time() moves between two steps.
TimeSteps == {30, 60}

\* is_rate_limited calls the model follows, over all users.
MaxCalls == 4

Users == {"admin", "u1"}

\* Request threads of the (threaded) Flask server.
Threads == {"t1", "t2"}

\* The last value of datetime.now() the model explores, in hours.
MaxHours == 3

\* How far datetime.now() moves between two requests.
HourSteps == {1, 2}

\* Rows the messages table holds at most.
MaxMessages == 4

\* POST /webhook requests handled in one run of the pipeline.
MaxRequests == 3

\* The retention given to cleanup_old_conversations: the configured one
\* (scheduler, "/admin cleanup") or the "hours" of POST /admin/cleanup.
CleanupHours == {0, CONVERSATION_TIMEOUT_HOURS}

\* Message texts after sanitising, and replies of the AI collaborator.
UserTexts == {<<"hi">>, <<"yo">>}
AiReplies == {"r1", "r2"}

VARIABLES
    time_time,            \* time.time(), seconds
    rate_limit_tracker,   \* user_id -> list of admission times (server.py:51)
    rl,                   \* thread -> frame of its is_rate_limited call
    calls,                \* history: user_id -> completed calls [time, limited]
    datetime_now,         \* datetime.now(), hours
    conversations,        \* table conversations: user_id -> row
    messages,             \* table messages: rows in rowid order
    wh,                   \* thread -> frame of its chat_with_ai call
    cleanup_ret,          \* what the cleanup that produced this state returned
    added,                \* history: user_id -> turns added since its row was created
    APP_SECRET,           \* Config.APP_SECRET (src/config.py:18), "" when not set
    last,                 \* the POST /webhook request just handled, and what was done
    requests,             \* the number of POST /webhook requests handled
    split,                \* the frame of a split_long_message call
    db_lock,              \* db_lock (server.py:48): the thread holding it, or "free"
    lk,                   \* request thread -> where it stands in webhook
    sched                 \* the cleanup thread: where it stands, how its last cycle ended

rlVars == <<time_time, rate_limit_tracker, rl, calls>>
dbVars == <<datetime_now, conversations, messages, wh, cleanup_ret, added>>
lockVars == <<db_lock, lk, sched>>
hookVars == <<APP_SECRET, last, requests, split, lockVars>>
vars == <<rlVars, dbVars, hookVars>>

(* ------------------------------------------------------------------ *)
(* Helpers                                                             *)
(* ------------------------------------------------------------------ *)

Last(s) == s[Len(s)]

(* ------------------------------------------------------------------ *)
(* Rate limiter: is_rate_limited (src/server.py:260-275)               *)
(* ------------------------------------------------------------------ *)

\* The window test written with <=: a request exactly 60 seconds old is kept.
PruneWindow_Inclusive(user_requests, current_time) ==
    LET Keep(req_time) == current_time - req_time <= RateWindowSeconds
    IN SelectSeq(user_requests, Keep)

\* [req_time for req_time in user_requests if current_time - req_time < 60]
PruneWindow(user_requests, current_time) ==
    LET Keep(req_time) == current_time - req_time < RateWindowSeconds
    IN SelectSeq(user_requests, Keep)

\* The limit test written with >: one request more than the limit passes.
OverLimit_Strict(user_requests) == Len(user_requests) > RATE_LIMIT_PER_MINUTE

\* len(user_requests) >= Config.RATE_LIMIT_PER_MINUTE
OverLimit(user_requests) == Len(user_requests) >= RATE_LIMIT_PER_MINUTE

IdleFrame == [pc |-> "idle", user_id |-> "admin", current_time |-> 0, filtered |-> <<>>]

RateInit ==
    /\ time_time = 0
    /\ rate_limit_tracker = [u \in Users |-> <<>>]
    /\ rl = [t \in Threads |-> IdleFrame]
    /\ calls = [u \in Users |-> <<>>]

\* The wall clock advances.
TickSeconds ==
    /\ last.status = 0
    /\ \E d \in TimeSteps :
         /\ time_time + d <= MaxTime
         /\ time_time' = time_time + d
    /\ UNCHANGED <<rate_limit_tracker, rl, calls, dbVars, hookVars>>

RECURSIVE SumLen(_, _)
SumLen(f, S) ==
    IF S = {} THEN 0
    ELSE LET x == CHOOSE y \in S : TRUE IN Len(f[x]) + SumLen(f, S \ {x})

\* Calls completed or in progress.
CallsMade == SumLen(calls, Users) + Cardinality({o \in Threads : rl[o].pc # "idle"})

\* line 262-263: current_time = time.time(); user_requests = rate_limit_tracker[user_id]
RlEnter(t, u) ==
    /\ rl[t].pc = "idle"
    /\ CallsMade < MaxCalls
    /\ rl' = [rl EXCEPT ![t] = [pc |-> "filter", user_id |-> u,
                                current_time |-> time_time, filtered |-> <<>>]]
    /\ UNCHANGED <<time_time, rate_limit_tracker, calls, dbVars, hookVars>>

\* line 266-267, right-hand side: the list comprehension builds a new list
RlFilter(t) ==
    /\ rl[t].pc = "filter"
    /\ rl' = [rl EXCEPT ![t].pc = "assign",
                        ![t].filtered =
                            PruneWindow(rate_limit_tracker[rl[t].user_id], rl[t].current_time)]
    /\ UNCHANGED <<time_time, rate_limit_tracker, calls, dbVars, hookVars>>

\* line 266: user_requests[:] = <the new list>
RlAssign(t) ==
    /\ rl[t].pc = "assign"
    /\ rate_limit_tracker' = [rate_limit_tracker EXCEPT ![rl[t].user_id] = rl[t].filtered]
    /\ rl' = [rl EXCEPT ![t].pc = "check", ![t].filtered = <<>>]
    /\ UNCHANGED <<time_time, calls, dbVars, hookVars>>

\* line 270-271: over the limit, return True
RlReject(t) ==
    /\ rl[t].pc = "check"
    /\ OverLimit(rate_limit_tracker[rl[t].user_id])
    /\ calls' = [calls EXCEPT ![rl[t].user_id] =
                    Append(@, [time |-> rl[t].current_time, limited |-> TRUE])]
    /\ rl' = [rl EXCEPT ![t] = IdleFrame]
    /\ UNCHANGED <<time_time, rate_limit_tracker, dbVars, hookVars>>

\* line 270: under the limit, fall through to the append
RlPass(t) ==
    /\ rl[t].pc = "check"
    /\ ~OverLimit(rate_limit_tracker[rl[t].user_id])
    /\ rl' = [rl EXCEPT ![t].pc = "append"]
    /\ UNCHANGED <<time_time, rate_limit_tracker, calls, dbVars, hookVars>>

\* line 274-275: user_requests.append(current_time); return False
RlAppend(t) ==
    /\ rl[t].pc = "append"
    /\ rate_limit_tracker' = [rate_limit_tracker EXCEPT ![rl[t].user_id] =
                                 Append(@, rl[t].current_time)]
    /\ calls' = [calls EXCEPT ![rl[t].user_id] =
                    Append(@, [time |-> rl[t].current_time, limited |-> FALSE])]
    /\ rl' = [rl EXCEPT ![t] = IdleFrame]
    /\ UNCHANGED <<time_time, dbVars, hookVars>>

RlStep(t) ==
    \/ \E u \in Users : RlEnter(t, u)
    \/ RlFilter(t)
    \/ RlAssign(t)
    \/ RlReject(t)
    \/ RlPass(t)
    \/ RlAppend(t)

(* ------------------------------------------------------------------ *)
(* Conversation store: DatabaseManager (src/server.py:67-222)          *)
(*                                                                     *)
(* Every method below runs under "with db_lock" and commits once, so   *)
(* each is one atomic step.  SQLite does not enforce the FOREIGN KEY   *)
(* of messages (no PRAGMA foreign_keys), so a message row may name a   *)
(* user_id that has no conversations row.                              *)
(* ------------------------------------------------------------------ *)

\* No row in conversations for the user.
NoRow == [present |-> FALSE, last_activity |-> 0, message_count |-> 0]

\* INSERT INTO conversations (user_id, last_activity): message_count DEFAULT 0
NewRow(now) == [present |-> TRUE, last_activity |-> now, message_count |-> 0]

\* The rowids (positions) of the user's rows in messages.
RowsOf(msgs, user_id) == {i \in DOMAIN msgs : msgs[i].user_id = user_id}

\* ORDER BY timestamp DESC: the row that comes first among ids.  Real
\* timestamps (microseconds) grow with the rowid; rows of the same model
\* hour are therefore taken in descending rowid order.
FirstDesc(msgs, ids) ==
    CHOOSE i \in ids : \A j \in ids :
        \/ msgs[j].timestamp < msgs[i].timestamp
        \/ (msgs[j].timestamp = msgs[i].timestamp /\ j <= i)

RECURSIVE OrderDescLimit(_, _, _)
\* SELECT ... ORDER BY timestamp DESC LIMIT limit, as a list of rowids
OrderDescLimit(msgs, ids, limit) ==
    IF ids = {} \/ limit <= 0 THEN <<>>
    ELSE LET i == FirstDesc(msgs, ids)
         IN <<i>> \o OrderDescLimit(msgs, ids \ {i}, limit - 1)

\* reversed(message_rows)
Reversed(s) == [k \in 1..Len(s) |-> s[Len(s) + 1 - k]]

\* Message(role, content, timestamp) of a row
MessageOf(row) == [role |-> row.role, content |-> row.content, timestamp |-> row.timestamp]

\* The rows kept in the order of the query, newest first (no reversed()).
RecentMessages_NewestFirst(msgs, user_id) ==
    LET message_rows == OrderDescLimit(msgs, RowsOf(msgs, user_id), MAX_CONVERSATION_LENGTH)
    IN [k \in 1..Len(message_rows) |-> MessageOf(msgs[message_rows[k]])]

\* get_conversation, lines 137-152: the recent messages, oldest first
RecentMessages(msgs, user_id) ==
    LET message_rows == OrderDescLimit(msgs, RowsOf(msgs, user_id), MAX_CONVERSATION_LENGTH)
        ordered == Reversed(message_rows)
    IN [k \in 1..Len(ordered) |-> MessageOf(msgs[ordered[k]])]

\* get_conversation (lines 115-159): the tables after the call and the
\* Conversation it returns.
get_conversation(convs, msgs, user_id, now) ==
    LET conv_row == convs[user_id]
    IN [conversations |-> IF conv_row.present THEN convs
                          ELSE [convs EXCEPT ![user_id] = NewRow(now)],
        conversation |->
            [user_id |-> user_id,
             messages |-> RecentMessages(msgs, user_id),
             last_activity |-> IF conv_row.present THEN conv_row.last_activity ELSE now,
             message_count |-> IF conv_row.present THEN conv_row.message_count ELSE 0]]

\* The UPDATE without its message_count = message_count + 1.
UpdateConversation_NoCount(convs, user_id, timestamp) ==
    IF convs[user_id].present
    THEN [convs EXCEPT ![user_id].last_activity = timestamp]
    ELSE convs

\* add_message, lines 174-178: UPDATE conversations ... WHERE user_id = ?
\* (no row matches when the user has none)
UpdateConversation(convs, user_id, timestamp) ==
    IF convs[user_id].present
    THEN [convs EXCEPT ![user_id] =
             [present |-> TRUE, last_activity |-> timestamp,
              message_count |-> @.message_count + 1]]
    ELSE convs

\* add_message (lines 161-180): the tables after the call
add_message(convs, msgs, user_id, role, content, now) ==
    [messages |-> Append(msgs, [user_id |-> user_id, role |-> role,
                                 content |-> content, timestamp |-> now]),
     conversations |-> UpdateConversation(convs, user_id, now)]

\* The cutoff test written with <=: a row exactly at the cutoff is deleted.
OldConversations_Inclusive(convs, cutoff_time) ==
    {u \in Users : convs[u].present /\ convs[u].last_activity <= cutoff_time}

\* cleanup_old_conversations, lines 189-192:
\* SELECT user_id FROM conversations WHERE last_activity < cutoff_time
OldConversations(convs, cutoff_time) ==
    {u \in Users : convs[u].present /\ convs[u].last_activity < cutoff_time}

\* cleanup_old_conversations, line 199: DELETE FROM messages WHERE user_id IN (...)
DeleteMessages(msgs, user_ids) ==
    LET Keep(row) == row.user_id \notin user_ids
    IN SelectSeq(msgs, Keep)

\* cleanup_old_conversations, line 200: DELETE FROM conversations WHERE user_id IN (...)
DeleteConversations(convs, user_ids) ==
    [u \in Users |-> IF u \in user_ids THEN NoRow ELSE convs[u]]

\* cleanup_old_conversations (lines 182-206): the tables after the call and
\* the number it returns.
cleanup_old_conversations(convs, msgs, hours, now) ==
    LET cutoff_time == now - hours
        old_convs == OldConversations(convs, cutoff_time)
    IN IF old_convs # {}
       THEN [messages |-> DeleteMessages(msgs, old_convs),
             conversations |-> DeleteConversations(convs, old_convs),
             returned |-> Cardinality(old_convs)]
       ELSE [messages |-> msgs, conversations |-> convs, returned |-> 0]

(* ------------------------------------------------------------------ *)
(* Request threads in chat_with_ai (src/server.py:329-357) and the     *)
(* callers of cleanup_old_conversations, interleaved                   *)
(* ------------------------------------------------------------------ *)

SecondsPerHour == 3600

\* cleanup_ret when the state is not the result of a cleanup.
NoReturn == 0 - 1

IdleChat == [pc |-> "idle", user_id |-> "admin", user_message |-> <<"hi">>, ai_response |-> "r1"]

InFlight == {t \in Threads : wh[t].pc # "idle"}

DbInit ==
    /\ datetime_now = 0
    /\ conversations = [u \in Users |-> NoRow]
    /\ messages = <<>>
    /\ wh = [t \in Threads |-> IdleChat]
    /\ cleanup_ret = NoReturn
    /\ added = [u \in Users |-> <<>>]

\* The wall clock advances.  A request lasts seconds (the AI call is given
\* WEBHOOK_TIMEOUT = 30 s), so the hour does not change under one in flight.
TickHours ==
    /\ InFlight = {}
    /\ last.status = 0
    /\ \E d \in HourSteps :
         /\ datetime_now + d <= MaxHours
         /\ datetime_now' = datetime_now + d
         /\ time_time' = time_time + SecondsPerHour * d
    /\ cleanup_ret' = NoReturn
    /\ UNCHANGED <<conversations, messages, wh, added, rate_limit_tracker, rl, calls,
                   hookVars>>

\* line 329: conversation = db_manager.get_conversation(user_id)
ChatGet(t, user_id, user_message) ==
    /\ wh[t].pc = "idle"
    /\ Len(messages) + 2 * Cardinality(InFlight) + 2 <= MaxMessages
    /\ LET got == get_conversation(conversations, messages, user_id, datetime_now)
       IN /\ conversations' = got.conversations
          /\ added' = IF conversations[user_id].present THEN added
                      ELSE [added EXCEPT ![user_id] = <<>>]
    /\ wh' = [wh EXCEPT ![t] = [pc |-> "ai", user_id |-> user_id,
                                user_message |-> user_message, ai_response |-> "r1"]]
    /\ cleanup_ret' = NoReturn
    /\ UNCHANGED <<datetime_now, messages, rlVars, hookVars>>

\* line 342-350: the completion call returns a reply
ChatAiReply(t, ai_response) ==
    /\ wh[t].pc = "ai"
    /\ wh' = [wh EXCEPT ![t].pc = "add_user", ![t].ai_response = ai_response]
    /\ cleanup_ret' = NoReturn
    /\ UNCHANGED <<datetime_now, conversations, messages, added, rlVars, hookVars>>

\* line 342, 359-361: the completion call raises or times out
ChatAiFail(t) ==
    /\ wh[t].pc = "ai"
    /\ wh' = [wh EXCEPT ![t] = IdleChat]
    /\ cleanup_ret' = NoReturn
    /\ UNCHANGED <<datetime_now, conversations, messages, added, rlVars, hookVars>>

\* The turn added to the history of a user that has a conversations row.
Record(user_id, role, content) ==
    IF conversations[user_id].present
    THEN [added EXCEPT ![user_id] = Append(@, [role |-> role, content |-> content])]
    ELSE added

\* line 353: db_manager.add_message(user_id, "user", user_message)
ChatAddUser(t) ==
    /\ wh[t].pc = "add_user"
    /\ LET put == add_message(conversations, messages, wh[t].user_id, "user",
                              wh[t].user_message, datetime_now)
       IN /\ conversations' = put.conversations
          /\ messages' = put.messages
    /\ added' = Record(wh[t].user_id, "user", wh[t].user_message)
    /\ wh' = [wh EXCEPT ![t].pc = "add_assistant"]
    /\ cleanup_ret' = NoReturn
    /\ UNCHANGED <<datetime_now, rlVars, hookVars>>

\* line 354: db_manager.add_message(user_id, "assistant", ai_response)
ChatAddAssistant(t) ==
    /\ wh[t].pc = "add_assistant"
    /\ LET put == add_message(conversations, messages, wh[t].user_id, "assistant",
                              wh[t].ai_response, datetime_now)
       IN /\ conversations' = put.conversations
          /\ messages' = put.messages
    /\ added' = Record(wh[t].user_id, "assistant", wh[t].ai_response)
    /\ wh' = [wh EXCEPT ![t] = IdleChat]
    /\ cleanup_ret' = NoReturn
    /\ UNCHANGED <<datetime_now, rlVars, hookVars>>

\* cleanup_old_conversations(hours) called by the scheduler thread (line 617),
\* by POST /admin/cleanup (line 592) or by "/admin cleanup" (line 444)
Cleanup(hours) ==
    /\ last.status = 0
    /\ LET done == cleanup_old_conversations(conversations, messages, hours, datetime_now)
       IN /\ conversations' = done.conversations
          /\ messages' = done.messages
          /\ cleanup_ret' = done.returned
          /\ added' = [u \in Users |-> IF done.conversations[u].present
                                       THEN added[u] ELSE <<>>]
    /\ UNCHANGED <<datetime_now, wh, rlVars, hookVars>>

ChatStep(t) ==
    \/ \E u \in Users, m \in UserTexts : ChatGet(t, u, m)
    \/ \E r \in AiReplies : ChatAiReply(t, r)
    \/ ChatAiFail(t)
    \/ ChatAddUser(t)
    \/ ChatAddAssistant(t)

(* ------------------------------------------------------------------ *)
(* split_long_message (src/server.py:288-315)                          *)
(*                                                                     *)
(* A text is the sequence of its characters.  Positions returned by    *)
(* rfind count from 0 as in the source; message[:k] is the first k     *)
(* characters and message[k:] the rest.                                *)
(* ------------------------------------------------------------------ *)

\* The longest text split.
MaxTextLength == 8

\* The largest max_length a text is split with.
MaxSplitLength == 7

\* The characters of a text: a letter, a sentence end, a space and a newline.
Chars == {"a", ".", " ", "\n"}

\* The characters str.strip() removes.
Whitespace == {" ", "\n"}

\* The texts split.
Texts == UNION {[1..n -> Chars] : n \in 0..MaxTextLength}

\* line 300: break_points = ['. ', '! ', '? ', '\n', ' ']
break_points == << <<".", " ">>, <<"!", " ">>, <<"?", " ">>, <<"\n">>, <<" ">> >>

\* message[:k]
Prefix(message, k) == SubSeq(message, 1, k)

\* message[k:]
Suffix(message, k) == SubSeq(message, k + 1, Len(message))

RECURSIVE LStrip(_)
\* str.lstrip()
LStrip(text) ==
    IF text # <<>> /\ Head(text) \in Whitespace THEN LStrip(Tail(text)) ELSE text

RECURSIVE RStrip(_)
\* str.rstrip()
RStrip(text) ==
    IF text # <<>> /\ text[Len(text)] \in Whitespace
    THEN RStrip(SubSeq(text, 1, Len(text) - 1)) ELSE text

\* str.strip()
Strip(text) == RStrip(LStrip(text))

\* The search without its bounds: message.rfind(bp).
rfind_Unbounded(message, bp, start, end) ==
    LET found == {pos \in 0..(Len(message) - Len(bp)) :
                     SubSeq(message, pos + 1, pos + Len(bp)) = bp}
    IN IF found = {} THEN 0 - 1 ELSE CHOOSE pos \in found : \A q \in found : q <= pos

\* message.rfind(bp, start, end): the highest position of bp inside
\* message[start:end], -1 when there is none
rfind(message, bp, start, end) ==
    LET stop == IF end < Len(message) THEN end ELSE Len(message)
        found == {pos \in start..(stop - Len(bp)) :
                     SubSeq(message, pos + 1, pos + Len(bp)) = bp}
    IN IF found = {} THEN 0 - 1 ELSE CHOOSE pos \in found : \A q \in found : q <= pos

\* line 305: bp_pos > max_length * 0.7
LateEnough(bp_pos, max_length) == 10 * bp_pos > 7 * max_length

\* lines 300-310: the end of the first break point, in the order of
\* break_points, that lies late enough; max_length when there is none
BreakPoint(message, max_length) ==
    LET usable == {k \in DOMAIN break_points :
                      LateEnough(rfind(message, break_points[k], 0, max_length), max_length)}
    IN IF usable = {} THEN max_length
       ELSE LET k == CHOOSE i \in usable : \A j \in usable : i <= j
            IN rfind(message, break_points[k], 0, max_length) + Len(break_points[k])

\* The rest taken one character after the break point.
Remaining_SkipOne(message, break_point) == Strip(Suffix(message, break_point + 1))

\* line 313: message = message[break_point:].strip()
Remaining(message, break_point) == Strip(Suffix(message, break_point))

\* The frame of a call: its arguments as passed, the local message and parts,
\* where the call stands, and the break point and message of the last cut.
Frame(input, max_length, message, parts, pc, cuts) ==
    [input |-> input, max_length |-> max_length, message |-> message, parts |-> parts,
     pc |-> pc, cuts |-> cuts]

\* No call of split_long_message is made.
NoSplit == Frame(<<>>, 1, <<>>, <<>>, "idle", 0)

\* lines 290-293: a text of at most max_length is returned as the only part
SplitEnter ==
    /\ split.pc = "called"
    /\ split' = IF Len(split.message) <= split.max_length
                THEN [split EXCEPT !.parts = <<split.message>>, !.pc = "returned"]
                ELSE [split EXCEPT !.parts = <<>>, !.pc = "while"]
    /\ UNCHANGED <<rlVars, dbVars, APP_SECRET, last, requests, lockVars>>

\* lines 294-297: what is left fits and is the last part
SplitLast ==
    /\ split.pc = "while"
    /\ split.message # <<>>
    /\ Len(split.message) <= split.max_length
    /\ split' = [split EXCEPT !.parts = Append(@, split.message), !.pc = "returned"]
    /\ UNCHANGED <<rlVars, dbVars, APP_SECRET, last, requests, lockVars>>

\* lines 299-313: the message is cut at a break point
SplitCut ==
    /\ split.pc = "while"
    /\ split.message # <<>>
    /\ Len(split.message) > split.max_length
    /\ \E break_point \in {BreakPoint(split.message, split.max_length)} :
          split' = [split EXCEPT
                       !.parts = Append(@, Strip(Prefix(split.message, break_point))),
                       !.message = Remaining(split.message, break_point),
                       !.cuts = @ + 1]
    /\ UNCHANGED <<rlVars, dbVars, APP_SECRET, last, requests, lockVars>>

\* lines 294, 315: nothing is left and parts is returned
SplitReturn ==
    /\ split.pc = "while"
    /\ split.message = <<>>
    /\ split' = [split EXCEPT !.pc = "returned"]
    /\ UNCHANGED <<rlVars, dbVars, APP_SECRET, last, requests, lockVars>>

(* ------------------------------------------------------------------ *)
(* db_lock (src/server.py:48) across the request threads and the       *)
(* cleanup thread of schedule_cleanup (src/server.py:608-622)          *)
(* ------------------------------------------------------------------ *)

\* The calls of a request thread that run inside "with db_lock".
LockedCalls == {"get_conversation", "add_user", "add_assistant"}

\* The lock kept by the thread that leaves the with block.
AfterWith_Held(holder) == holder

\* lines 117, 163, 186: leaving "with db_lock" releases the lock, also when
\* the block raises
AfterWith(holder) == "free"

\* The error of a cycle escapes the loop and the thread ends.
AfterFailedCycle_Ended == "ended"

\* lines 616-619: the error of a cycle is caught and logged inside the loop,
\* which goes back to time.sleep
AfterFailedCycle == "sleep"

\* The senders of the requests the threads handle.
Senders == {"u1"}

IdleThread == [pc |-> "idle", user_id |-> "u1"]

\* The request threads between webhook's line 498 and its response.
Active == {t \in Threads : lk[t].pc # "idle"}

LockInit ==
    /\ db_lock = "free"
    /\ lk = [t \in Threads |-> IdleThread]
    /\ sched = [pc |-> "sleep", outcome |-> "none"]

\* line 498: the handler calls chat_with_ai, which gets to line 329
ThStart(t, user_id) ==
    /\ lk[t].pc = "idle"
    /\ Len(messages) + 2 * Cardinality(Active) + 2 <= MaxMessages
    /\ lk' = [lk EXCEPT ![t] = [pc |-> "get_conversation", user_id |-> user_id]]
    /\ UNCHANGED <<rlVars, dbVars, APP_SECRET, last, requests, split, db_lock, sched>>

\* lines 117, 163: with db_lock, entered when the lock is free
ThAcquire(t) ==
    /\ lk[t].pc \in LockedCalls
    /\ db_lock = "free"
    /\ db_lock' = t
    /\ UNCHANGED <<rlVars, dbVars, APP_SECRET, last, requests, split, lk, sched>>

\* line 329: get_conversation runs and returns
ThGet(t) ==
    /\ lk[t].pc = "get_conversation"
    /\ db_lock = t
    /\ conversations' = get_conversation(conversations, messages, lk[t].user_id,
                                         datetime_now).conversations
    /\ db_lock' = AfterWith(t)
    /\ lk' = [lk EXCEPT ![t].pc = "ai"]
    /\ UNCHANGED <<datetime_now, messages, wh, cleanup_ret, added, rlVars,
                   APP_SECRET, last, requests, split, sched>>

\* lines 342-350: the completion call returns
ThAi(t) ==
    /\ lk[t].pc = "ai"
    /\ lk' = [lk EXCEPT ![t].pc = "add_user"]
    /\ UNCHANGED <<rlVars, dbVars, APP_SECRET, last, requests, split, db_lock, sched>>

\* lines 342-348, 359-361: the completion call raises or times out
ThAiRaise(t) ==
    /\ lk[t].pc = "ai"
    /\ lk' = [lk EXCEPT ![t].pc = "send"]
    /\ UNCHANGED <<rlVars, dbVars, APP_SECRET, last, requests, split, db_lock, sched>>

\* lines 353, 354: add_message runs and returns
ThAdd(t) ==
    /\ lk[t].pc \in {"add_user", "add_assistant"}
    /\ db_lock = t
    /\ \E put \in {add_message(conversations, messages, lk[t].user_id,
                                 IF lk[t].pc = "add_user" THEN "user" ELSE "assistant",
                                 IF lk[t].pc = "add_user" THEN <<"hi">> ELSE "r1",
                                 datetime_now)} :
          /\ conversations' = put.conversations
          /\ messages' = put.messages
    /\ db_lock' = AfterWith(t)
    /\ lk' = [lk EXCEPT ![t].pc = IF @ = "add_user" THEN "add_assistant" ELSE "send"]
    /\ UNCHANGED <<datetime_now, wh, cleanup_ret, added, rlVars,
                   APP_SECRET, last, requests, split, sched>>

\* lines 117-118, 163-164, 359-361: the store call raises inside the with
\* block before anything is committed
ThRaise(t) ==
    /\ lk[t].pc \in LockedCalls
    /\ db_lock = t
    /\ db_lock' = AfterWith(t)
    /\ lk' = [lk EXCEPT ![t].pc = "send"]
    /\ UNCHANGED <<rlVars, dbVars, APP_SECRET, last, requests, split, sched>>

\* lines 501-510: the transport call ends, delivered or not, and the handler
\* responds
ThSend(t) ==
    /\ lk[t].pc = "send"
    /\ lk' = [lk EXCEPT ![t] = IdleThread]
    /\ UNCHANGED <<rlVars, dbVars, APP_SECRET, last, requests, split, db_lock, sched>>

\* line 615: time.sleep(3600) returns
SchedWake ==
    /\ sched.pc = "sleep"
    /\ sched' = [sched EXCEPT !.pc = "cleanup"]
    /\ UNCHANGED <<rlVars, dbVars, APP_SECRET, last, requests, split, db_lock, lk>>

\* lines 617, 186: with db_lock, entered when the lock is free
SchedAcquire ==
    /\ sched.pc = "cleanup"
    /\ db_lock = "free"
    /\ db_lock' = "sched"
    /\ UNCHANGED <<rlVars, dbVars, APP_SECRET, last, requests, split, lk, sched>>

\* line 617: cleanup_old_conversations(Config.CONVERSATION_TIMEOUT_HOURS) returns
SchedRun ==
    /\ sched.pc = "cleanup"
    /\ db_lock = "sched"
    /\ \E done \in {cleanup_old_conversations(conversations, messages,
                                                CONVERSATION_TIMEOUT_HOURS, datetime_now)} :
          /\ conversations' = done.conversations
          /\ messages' = done.messages
    /\ db_lock' = AfterWith("sched")
    /\ sched' = [pc |-> "sleep", outcome |-> "ok"]
    /\ UNCHANGED <<datetime_now, wh, cleanup_ret, added, rlVars,
                   APP_SECRET, last, requests, split, lk>>

\* lines 187-201, 618-619: the cleanup raises before conn.commit(); the
\* connection is closed with nothing committed
SchedFail ==
    /\ sched.pc = "cleanup"
    /\ db_lock = "sched"
    /\ db_lock' = AfterWith("sched")
    /\ sched' = [pc |-> AfterFailedCycle, outcome |-> "failed"]
    /\ UNCHANGED <<rlVars, dbVars, APP_SECRET, last, requests, split, lk>>

(* ------------------------------------------------------------------ *)
(* POST /webhook (src/server.py:455-514) and the functions it calls,   *)
(* one request at a time                                               *)
(*                                                                     *)
(* A message text is the list of its whitespace-separated tokens.  A   *)
(* signature header "sha256=<hex of HMAC-SHA256(key, payload)>" is the *)
(* record of its scheme, key and payload: two headers are equal        *)
(* exactly when all three are (HMAC taken as collision-free).          *)
(* ------------------------------------------------------------------ *)

\* Config.ADMIN_USERS (src/config.py:22-25)
ADMIN_USERS == {"admin"}

\* Config.MAX_MESSAGE_LENGTH (src/config.py:37); lengths count tokens here.
MAX_MESSAGE_LENGTH == 4000

\* The secrets a header may be signed with: the configured one and another.
Secrets == {"s3cret", "wrong"}

\* Texts of inbound messages.
RawTexts ==
    {<<"hi">>, <<"<>">>, <<"/admin">>, <<"/admin", "stats">>, <<"/ADMIN", "Cleanup">>,
     <<"/admin", "help">>, <<"/admin", "frobnicate">>}

\* The texts the pipeline is run with.
TextsTried == {<<"hi">>, <<"<>">>, <<"/admin", "stats">>, <<"/ADMIN", "Cleanup">>,
               <<"/admin", "help">>}

\* Shapes of a payload that is no text message: a message of another type, an
\* event without messages (a delivery status), an empty entry array, a message
\* without metadata, without from or without text, and a JSON body that is no
\* object (a list, a string, null).
IrrelevantTypes == {"image", "status", "empty_entry", "no_metadata", "no_from", "no_text"}

NotObjectTypes == {"not_object"}

\* Webhook payloads: a text message, and one of each other shape.
Bodies ==
    [type : {"text"}, from : Users, text : TextsTried]
        \cup [type : {"text"}, from : ADMIN_USERS, text : {<<"/admin", "frobnicate">>}]
        \cup [type : IrrelevantTypes \cup NotObjectTypes, from : {"u1"}, text : {<<"hi">>}]

\* request.headers.get('X-Hub-Signature-256', ''): the header is absent or empty
NoSignature == [scheme |-> "", key |-> "", payload |-> <<>>]

\* "<scheme>" + hmac.new(key, payload, sha256).hexdigest()
Signed(scheme, key, payload) == [scheme |-> scheme, key |-> key, payload |-> <<payload>>]

\* The same payload with one byte changed.
Tampered(body) == [body EXCEPT !.from = IF @ = "admin" THEN "u1" ELSE "admin"]

\* Headers a request with this body may carry.
Signatures(body) ==
    {NoSignature}
        \cup {Signed("sha256=", k, body) : k \in Secrets}
        \cup {Signed("sha256=", "s3cret", Tampered(body)), Signed("sha1=", "s3cret", body)}

\* verify_webhook_signature (lines 244-258)
verify_webhook_signature(payload, signature, secret) ==
    IF secret = "" \/ signature = NoSignature
    THEN TRUE
    ELSE signature = Signed("sha256=", secret, payload)

\* is_rate_limited (lines 260-275), run without interruption
is_rate_limited(tracker, user_id, current_time) ==
    LET user_requests == PruneWindow(tracker[user_id], current_time)
    IN IF OverLimit(user_requests)
       THEN [limited |-> TRUE, tracker |-> [tracker EXCEPT ![user_id] = user_requests]]
       ELSE [limited |-> FALSE,
             tracker |-> [tracker EXCEPT ![user_id] = Append(user_requests, current_time)]]

\* A reply text: one of the fixed texts, the AI collaborator's, or an admin report.
Reply(kind, content, counts) == [kind |-> kind, content |-> content, counts |-> counts]

NoReply == Reply("None", "", <<>>)

\* The key misses the table: errors.get falls back to its default text.
get_user_friendly_error_Default(error_type) == Reply("default", "", <<>>)

\* get_user_friendly_error (lines 277-286)
get_user_friendly_error(error_type) == Reply(error_type, "", <<>>)

AdminReplyKinds == {"admin_stats", "admin_cleanup", "admin_help", "admin_unknown"}

\* re.sub(r'[<>"\']', '', ...) on one token: what is left of it, "" if nothing
StripHarmful(token) == IF token = "<>" THEN "" ELSE token

\* sanitize_input (lines 235-242)
sanitize_input(text) ==
    LET stripped == [k \in 1..Len(text) |-> StripHarmful(text[k])]
        NonEmpty(token) == token # ""
        sanitized == SelectSeq(stripped, NonEmpty)
    IN SubSeq(sanitized, 1, IF Len(sanitized) < MAX_MESSAGE_LENGTH
                            THEN Len(sanitized) ELSE MAX_MESSAGE_LENGTH)

\* str.lower() on one token
LowerToken(token) ==
    CASE token = "/ADMIN" -> "/admin"
      [] token = "Cleanup" -> "cleanup"
      [] token = "STATS" -> "stats"
      [] token = "Help" -> "help"
      [] OTHER -> token

\* The tokens compared as they were typed.
LowerSplit_CaseSensitive(command) == command

\* command.lower().split()
LowerSplit(command) == [k \in 1..Len(command) |-> LowerToken(command[k])]

\* extract_message_data (lines 396-423): the sender and text of a text
\* message, found FALSE otherwise (None returned: the envelope test fails, the
\* type is not text, or a KeyError/IndexError is caught).  body.get on a body
\* that is no object raises AttributeError, which line 420 does not catch.
extract_message_data(body) ==
    IF body.type = "text"
    THEN [found |-> TRUE, raised |-> FALSE, from_number |-> body.from,
          message_body |-> body.text]
    ELSE [found |-> FALSE, raised |-> body.type \in NotObjectTypes,
          from_number |-> body.from, message_body |-> <<>>]

\* get_stats (lines 208-222)
get_stats(convs, msgs, now) ==
    <<Cardinality({u \in Users : convs[u].present}),
      Len(msgs),
      Cardinality({u \in Users : convs[u].present /\ convs[u].last_activity > now - 24})>>

\* The check of line 427 left out: every sender passes as an administrator.
NotAdmin_Ungated(user_id) == FALSE

\* handle_admin_command, line 427: the sender is no administrator
NotAdmin(user_id) == user_id \notin ADMIN_USERS

\* The command kept as a turn of the administrator's conversation.
handle_admin_command_Recorded(convs, msgs, user_id, command, now) ==
    LET parts == LowerSplit(command)
        same == [reply |-> NoReply, conversations |-> convs, messages |-> msgs]
        kept == add_message(convs, msgs, user_id, "user", command, now)
        recorded == [reply |-> NoReply, conversations |-> kept.conversations,
                     messages |-> kept.messages]
    IN IF NotAdmin(user_id) THEN same
       ELSE IF Len(parts) < 2 \/ parts[1] # "/admin" THEN same
       ELSE IF parts[2] = "stats"
            THEN [recorded EXCEPT !.reply = Reply("admin_stats", "",
                                                  get_stats(convs, msgs, now))]
       ELSE IF parts[2] = "cleanup"
            THEN LET done == cleanup_old_conversations(convs, msgs,
                                                       CONVERSATION_TIMEOUT_HOURS, now)
                 IN [reply |-> Reply("admin_cleanup", "", <<done.returned>>),
                     conversations |-> done.conversations,
                     messages |-> done.messages]
       ELSE IF parts[2] = "help"
            THEN [recorded EXCEPT !.reply = Reply("admin_help", "", <<>>)]
       ELSE [recorded EXCEPT !.reply = Reply("admin_unknown", "", <<>>)]

\* handle_admin_command (lines 425-453): the reply (NoReply for None) and the
\* tables after the call
handle_admin_command(convs, msgs, user_id, command, now) ==
    LET parts == LowerSplit(command)
        same == [reply |-> NoReply, conversations |-> convs, messages |-> msgs]
    IN IF NotAdmin(user_id) THEN same
       ELSE IF Len(parts) < 2 \/ parts[1] # "/admin" THEN same
       ELSE IF parts[2] = "stats"
            THEN [same EXCEPT !.reply = Reply("admin_stats", "", get_stats(convs, msgs, now))]
       ELSE IF parts[2] = "cleanup"
            THEN LET done == cleanup_old_conversations(convs, msgs,
                                                       CONVERSATION_TIMEOUT_HOURS, now)
                 IN [reply |-> Reply("admin_cleanup", "", <<done.returned>>),
                     conversations |-> done.conversations,
                     messages |-> done.messages]
       ELSE IF parts[2] = "help"
            THEN [same EXCEPT !.reply = Reply("admin_help", "", <<>>)]
       ELSE [same EXCEPT !.reply = Reply("admin_unknown", "", <<>>)]

\* What the collaborators and the disk do during one request: the completion
\* call returns ai or raises (ai = "raise"), the store call named by db_error
\* raises, the delivery succeeds or not.
Envs ==
    [ai : {"r1", "raise"}, db_error : {"none"}, delivered : BOOLEAN]
        \cup [ai : {"r1"},
              db_error : {"get_conversation", "add_user", "add_assistant", "admin"},
              delivered : BOOLEAN]

\* The environment of a request that reaches no collaborator.
QuietEnv == [ai |-> "r1", db_error |-> "none", delivered |-> TRUE]

\* chat_with_ai (lines 317-361): the reply, the tables after the call, and
\* whether the completion call was made
chat_with_ai(convs, msgs, user_id, raw_message, now, env) ==
    LET user_message == sanitize_input(raw_message)
        got == get_conversation(convs, msgs, user_id, now)
        put1 == add_message(got.conversations, msgs, user_id, "user", user_message, now)
        put2 == add_message(put1.conversations, put1.messages, user_id, "assistant",
                            env.ai, now)
        Result(reply, c, m, called) ==
            [reply |-> reply, conversations |-> c, messages |-> m, ai_called |-> called]
    IN IF user_message = <<>>
       THEN Result(get_user_friendly_error("invalid_request"), convs, msgs, FALSE)
       ELSE IF Len(user_message) > MAX_MESSAGE_LENGTH
       THEN Result(get_user_friendly_error("long_message"), convs, msgs, FALSE)
       ELSE IF env.db_error = "get_conversation"
       THEN Result(get_user_friendly_error("ai_error"), convs, msgs, FALSE)
       ELSE IF env.ai = "raise"
       THEN Result(get_user_friendly_error("ai_error"), got.conversations, msgs, TRUE)
       ELSE IF env.db_error = "add_user"
       THEN Result(get_user_friendly_error("ai_error"), got.conversations, msgs, TRUE)
       ELSE IF env.db_error = "add_assistant"
       THEN Result(get_user_friendly_error("ai_error"), put1.conversations,
                   put1.messages, TRUE)
       ELSE Result(Reply("ai", env.ai, <<>>), put2.conversations, put2.messages, TRUE)

\* split_long_message, lines 290-291: every reply of the pipeline is shorter
\* than max_length and is returned as the only part.
MessageParts(message) == <<message>>

\* send_whatsapp_message (lines 363-394): the transport calls made, one per
\* part up to the first that fails (raise_for_status ends the loop).
send_whatsapp_message(to_number, message, env) ==
    LET message_parts == MessageParts(message)
        calls_made == IF env.delivered THEN Len(message_parts) ELSE 1
    IN [k \in 1..calls_made |->
           [to |-> to_number, message |-> message_parts[k], delivered |-> env.delivered]]

\* send_whatsapp_message, lines 390-394: True, or False once a call failed
Success(sent) == \A k \in DOMAIN sent : sent[k].delivered

\* The response turned into a server error when the delivery failed.
StatusAfterSend_Failing(success) == IF success THEN 200 ELSE 500

\* webhook, lines 507-510: the failure is logged and the response is 200
StatusAfterSend(success) == 200

\* handle_admin_command, lines 436-445: the command makes a call to the store
AdminStoreCall(user_id, command) ==
    LET parts == LowerSplit(command)
    IN /\ ~NotAdmin(user_id)
       /\ Len(parts) >= 2
       /\ parts[1] = "/admin"
       /\ parts[2] \in {"stats", "cleanup"}

\* The command's request run through is_rate_limited as well.
TrackerAfterAdmin_Counted(tracker, user_id, current_time) ==
    is_rate_limited(tracker, user_id, current_time).tracker

\* lines 478-485: the handler returns on an admin reply before line 488, with
\* rate_limit_tracker as it found it
TrackerAfterAdmin(tracker, user_id, current_time) == tracker

\* What a request leaves behind: the response status, the stages the handler
\* went through, the replies it handed to the transport, and the state.
Outcome(req, status, stages, admin_response, sent, tracker, convs, msgs) ==
    [event |-> [signature |-> req.signature, body |-> req.body,
                status |-> status, stages |-> stages,
                admin_response |-> admin_response, sent |-> sent],
     tracker |-> tracker, conversations |-> convs, messages |-> msgs]

\* webhook (lines 455-514)
webhook(secret, tracker, convs, msgs, current_time, now, req, env) ==
    IF secret # "" /\ ~verify_webhook_signature(req.body, req.signature, secret)
    THEN Outcome(req, 401, <<"verify">>, NoReply, <<>>, tracker, convs, msgs)
    ELSE
    LET message_data == extract_message_data(req.body)
        user_id == message_data.from_number
        user_message == message_data.message_body
        admin == handle_admin_command(convs, msgs, user_id, user_message, now)
        rate == is_rate_limited(tracker, user_id, current_time)
        chat == chat_with_ai(convs, msgs, user_id, user_message, now, env)
        admin_sent == send_whatsapp_message(user_id, admin.reply, env)
        limit_sent == send_whatsapp_message(user_id, get_user_friendly_error("rate_limit"),
                                            env)
        chat_sent == send_whatsapp_message(user_id, chat.reply, env)
    IN IF message_data.raised
       THEN Outcome(req, 500, <<"verify", "extract">>, NoReply, <<>>, tracker, convs, msgs)
       ELSE IF ~message_data.found
       THEN Outcome(req, 200, <<"verify", "extract">>, NoReply, <<>>, tracker, convs, msgs)
       ELSE IF env.db_error = "admin" /\ AdminStoreCall(user_id, user_message)
       THEN Outcome(req, 500, <<"verify", "extract", "admin">>, NoReply, <<>>,
                    tracker, convs, msgs)
       ELSE IF admin.reply # NoReply
       THEN Outcome(req, 200, <<"verify", "extract", "admin", "send">>, admin.reply,
                    admin_sent, TrackerAfterAdmin(tracker, user_id, current_time),
                    admin.conversations, admin.messages)
       ELSE IF rate.limited
       THEN Outcome(req, 200, <<"verify", "extract", "admin", "rate_limit", "send">>,
                    NoReply, limit_sent, rate.tracker, convs, msgs)
       ELSE Outcome(req, StatusAfterSend(Success(chat_sent)),
                    IF chat.ai_called
                    THEN <<"verify", "extract", "admin", "rate_limit", "chat", "ai", "send">>
                    ELSE <<"verify", "extract", "admin", "rate_limit", "chat", "send">>,
                    NoReply, chat_sent, rate.tracker, chat.conversations, chat.messages)

\* No request handled yet.
NoEvent ==
    [signature |-> NoSignature,
     body |-> [type |-> "status", from |-> "u1", text |-> <<"hi">>],
     status |-> 0, stages |-> <<>>, admin_response |-> NoReply, sent |-> <<>>,
     changed |-> FALSE, env |-> QuietEnv, persisted |-> 0, counted |-> 0]

\* The headers explored with a body: none can matter when no secret is set
\* (line 460 does not read the header then); every kind of header with a text
\* message, the right one with the other payloads.
SignaturesTried(body) ==
    IF APP_SECRET = "" THEN {NoSignature}
    ELSE IF body.type = "text" THEN Signatures(body)
    ELSE {Signed("sha256=", APP_SECRET, body)}

\* The environments explored with a request, those that can make a difference
\* to it: one when the request is turned away before any collaborator is
\* reached, the store and the transport for an admin command, the transport
\* for a sender over the limit, all of them for a chat.
EnvsTried(req) ==
    LET message_data == extract_message_data(req.body)
        user_id == message_data.from_number
    IN IF \/ APP_SECRET # "" /\ ~verify_webhook_signature(req.body, req.signature, APP_SECRET)
          \/ ~message_data.found
       THEN {QuietEnv}
       ELSE IF handle_admin_command(conversations, messages, user_id,
                                    message_data.message_body, datetime_now).reply # NoReply
       THEN {env \in Envs : env.ai = "r1" /\ env.db_error \in {"none", "admin"}}
       ELSE IF is_rate_limited(rate_limit_tracker, user_id, time_time).limited
       THEN {env \in Envs : env.ai = "r1" /\ env.db_error = "none"}
       ELSE {env \in Envs : env.db_error # "admin"}

\* message_count of the user's conversation, 0 without one
CountOf(convs, user_id) ==
    IF convs[user_id].present THEN convs[user_id].message_count ELSE 0

\* One POST /webhook request, handled from start to end.
Webhook(req, env) ==
    /\ last.status = 0
    /\ \E out \in {webhook(APP_SECRET, rate_limit_tracker, conversations, messages,
                            time_time, datetime_now, req, env)} :
          /\ Len(out.messages) <= MaxMessages
          /\ rate_limit_tracker' = out.tracker
          /\ conversations' = out.conversations
          /\ messages' = out.messages
          /\ last' = [signature |-> out.event.signature, body |-> out.event.body,
                       status |-> out.event.status, stages |-> out.event.stages,
                       admin_response |-> out.event.admin_response,
                       sent |-> out.event.sent,
                       changed |-> \/ out.tracker # rate_limit_tracker
                                   \/ out.conversations # conversations
                                   \/ out.messages # messages,
                       env |-> env,
                       persisted |-> Len(out.messages) - Len(messages),
                       counted |-> CountOf(out.conversations, req.body.from)
                                       - CountOf(conversations, req.body.from)]
    /\ requests' = requests + 1
    /\ cleanup_ret' = NoReturn
    /\ UNCHANGED <<time_time, rl, calls, datetime_now, wh, added, APP_SECRET, split, lockVars>>

\* A request arrives when the last one was answered.
Request ==
    /\ last.status = 0
    /\ requests < MaxRequests
    /\ \E b \in Bodies : \E sig \in SignaturesTried(b) :
           \E env \in EnvsTried([signature |-> sig, body |-> b]) :
               Webhook([signature |-> sig, body |-> b], env)

\* The response is returned and the request's frame is gone.
Respond ==
    /\ last.status # 0
    /\ last' = NoEvent
    /\ UNCHANGED <<rlVars, dbVars, APP_SECRET, requests, split, lockVars>>

\* The scheduler thread's hourly cleanup (lines 613-619)
ScheduledCleanup == Cleanup(CONVERSATION_TIMEOUT_HOURS)

Init ==
    /\ RateInit
    /\ DbInit
    /\ APP_SECRET \in {"", "s3cret"}
    /\ last = NoEvent
    /\ requests = 0
    /\ split = NoSplit
    /\ LockInit

Next ==
    \/ TickHours
    \/ ScheduledCleanup
    \/ Request
    \/ Respond

\* The webhook pipeline, request after request, with the clock and the scheduler.
Spec == Init /\ [][Next]_vars

(* ------------------------------------------------------------------ *)
(* The store and the rate limiter under interleaved threads            *)
(* ------------------------------------------------------------------ *)

HookInit ==
    /\ APP_SECRET = ""
    /\ last = NoEvent
    /\ requests = 0
    /\ split = NoSplit
    /\ LockInit

InitStore == RateInit /\ DbInit /\ HookInit

NextStore ==
    \/ TickHours
    \/ \E t \in Threads : ChatStep(t)
    \/ \E h \in CleanupHours : Cleanup(h)

\* Request threads and cleanup callers sharing the store.
SpecStore == InitStore /\ [][NextStore]_vars

InitRate == RateInit /\ DbInit /\ HookInit

NextRate ==
    \/ TickSeconds
    \/ \E t \in Threads : RlStep(t)

\* Request threads in is_rate_limited, interleaved.
SpecRate == InitRate /\ [][NextRate]_vars

\* A call that starts when no thread is inside is_rate_limited.
RlEnterAlone(t, u) ==
    /\ \A o \in Threads : rl[o].pc = "idle"
    /\ RlEnter(t, u)

NextRateSeq ==
    \/ TickSeconds
    \/ \E t \in Threads :
         \/ \E u \in Users : RlEnterAlone(t, u)
         \/ RlFilter(t)
         \/ RlAssign(t)
         \/ RlReject(t)
         \/ RlPass(t)
         \/ RlAppend(t)

\* is_rate_limited called by one thread at a time.
SpecRateSeq == InitRate /\ [][NextRateSeq]_vars

\* A call split_long_message(message, max_length) with any text and limit.
InitSplit ==
    /\ RateInit
    /\ DbInit
    /\ APP_SECRET = ""
    /\ last = NoEvent
    /\ requests = 0
    /\ \E message \in Texts : \E max_length \in 1..MaxSplitLength :
          split = Frame(message, max_length, message, <<>>, "called", 0)
    /\ LockInit

NextSplit ==
    \/ SplitEnter
    \/ SplitLast
    \/ SplitCut
    \/ SplitReturn

\* split_long_message run statement by statement on every text and limit.
SpecSplit == InitSplit /\ [][NextSplit]_vars

InitThreads == RateInit /\ DbInit /\ HookInit

ThStep(t) ==
    \/ \E user_id \in Senders : ThStart(t, user_id)
    \/ ThAcquire(t)
    \/ ThGet(t)
    \/ ThAi(t)
    \/ ThAiRaise(t)
    \/ ThAdd(t)
    \/ ThRaise(t)
    \/ ThSend(t)

NextThreads ==
    \/ TickHours
    \/ \E t \in Threads : ThStep(t)
    \/ SchedWake
    \/ SchedAcquire
    \/ SchedRun
    \/ SchedFail

\* A thread inside a with block leaves it; the cleanup thread's sleep ends and
\* it gets the lock when the lock keeps coming free.
FairThreads ==
    /\ \A t \in Threads : WF_vars(ThGet(t) \/ ThAdd(t) \/ ThRaise(t))
    /\ WF_vars(SchedWake)
    /\ SF_vars(SchedAcquire)
    /\ WF_vars(SchedRun \/ SchedFail)

\* The request threads and the cleanup thread around db_lock.
SpecThreads == InitThreads /\ [][NextThreads]_vars /\ FairThreads

(* ------------------------------------------------------------------ *)
(* Claims about the rate limiter                                       *)
(* ------------------------------------------------------------------ *)

AllRlIdle == \A t \in Threads : rl[t].pc = "idle"

\* The positions of the admitted calls (returned False) of a user.
Admitted(u) == {i \in DOMAIN calls[u] : ~calls[u][i].limited}

\* How often time x occurs in list s.
Occurrences(s, x) == Cardinality({k \in DOMAIN s : s[k] = x})

\* C1: concurrent is_rate_limited calls of one user behave like calls made one
\* after another: no 60-second span holds more than RATE_LIMIT_PER_MINUTE
\* admitted calls, and no admission is lost (once all calls have returned,
\* every admission that no call was late enough to prune is in the window).
C1_ConcurrentCallsLinearizable ==
    \A u \in Users :
        /\ \A i \in Admitted(u) :
              Cardinality({j \in Admitted(u) :
                              /\ calls[u][i].time <= calls[u][j].time
                              /\ calls[u][j].time < calls[u][i].time + RateWindowSeconds})
                  <= RATE_LIMIT_PER_MINUTE
        /\ AllRlIdle =>
              \A i \in Admitted(u) :
                  (\A j \in DOMAIN calls[u] :
                       calls[u][j].time - calls[u][i].time < RateWindowSeconds)
                  => Occurrences(rate_limit_tracker[u], calls[u][i].time)
                        >= Cardinality({j \in Admitted(u) :
                                           calls[u][j].time = calls[u][i].time})

\* The admitted calls of u before call i that are less than 60 s older than it.
AdmittedInWindowBefore(u, i) ==
    {j \in Admitted(u) : j < i /\ calls[u][i].time - calls[u][j].time < RateWindowSeconds}

\* The times of the admitted calls of u that are less than 60 s older than
\* the last call of u, in call order.
WindowAfterLastCall(u) ==
    LET t_last == calls[u][Len(calls[u])].time
        InWindow(c) == ~c.limited /\ t_last - c.time < RateWindowSeconds
        kept == SelectSeq(calls[u], InWindow)
    IN [k \in 1..Len(kept) |-> kept[k].time]

\* C2: calls made one at a time: a call is rejected whenever
\* RATE_LIMIT_PER_MINUTE earlier calls of the user were admitted less than 60 s
\* before it, and the window holds the admitted timestamps only (a rejected
\* call adds none).
C2_SequentialRejection ==
    \A u \in Users :
        /\ \A i \in DOMAIN calls[u] :
              Cardinality(AdmittedInWindowBefore(u, i)) >= RATE_LIMIT_PER_MINUTE
                  => calls[u][i].limited
        /\ (AllRlIdle /\ calls[u] # <<>>) =>
              rate_limit_tracker[u] = WindowAfterLastCall(u)

\* C2 witness: a call was rejected and its window holds the full limit.
C2_Witness ==
    \E u \in Users :
        /\ AllRlIdle
        /\ calls[u] # <<>>
        /\ calls[u][Len(calls[u])].limited
        /\ Len(rate_limit_tracker[u]) = RATE_LIMIT_PER_MINUTE

\* C3: a call made when every admitted call of the user is at least 60 s old
\* is admitted, whatever was rejected in between.
C3_RecoveryAfterWindow ==
    \A u \in Users : \A i \in DOMAIN calls[u] :
        (\A j \in Admitted(u) :
             j < i => calls[u][i].time - calls[u][j].time >= RateWindowSeconds)
        => ~calls[u][i].limited

\* C3 witness: a user was rejected and, a full window after the last
\* admission, admitted again.
C3_Witness ==
    \E u \in Users : \E i \in Admitted(u) :
        /\ \E k \in DOMAIN calls[u] : k < i /\ calls[u][k].limited
        /\ \E j \in Admitted(u) : j < i
        /\ \A j \in Admitted(u) :
              j < i => calls[u][i].time - calls[u][j].time >= RateWindowSeconds

(* ------------------------------------------------------------------ *)
(* Claims about the conversation store                                 *)
(* ------------------------------------------------------------------ *)

\* C4: every row of messages names a user that has a conversations row.
C4_NoOrphanedMessages ==
    \A i \in DOMAIN messages : conversations[messages[i].user_id].present

\* message_count of every conversation is the number of the user's message rows
\* and the number of turns added since the row was created.
CountMatches ==
    \A u \in Users :
        conversations[u].present =>
            /\ conversations[u].message_count = Cardinality(RowsOf(messages, u))
            /\ conversations[u].message_count = Len(added[u])

\* C5: message_count equals the number of messages persisted for the user, and
\* a step lowers it only by deleting the whole conversation.
C5_MessageCountInvariant ==
    [][/\ CountMatches'
       /\ \A u \in Users :
             (conversations[u].present /\ conversations'[u].present)
                 => conversations'[u].message_count >= conversations[u].message_count]_vars

\* The thread takes its add_message step (line 353 or 354).
AddsMessage(t) ==
    /\ wh[t].pc \in {"add_user", "add_assistant"}
    /\ wh'[t].pc # wh[t].pc

\* C6: add_message followed by get_conversation returns a list that ends with
\* the added role and content, and a message_count one above the count before
\* the add (0 when the user had no row).
C6_RoundTrip ==
    [][\A t \in Threads :
          AddsMessage(t) =>
              LET u == wh[t].user_id
                  before == IF conversations[u].present
                            THEN conversations[u].message_count ELSE 0
                  role == IF wh[t].pc = "add_user" THEN "user" ELSE "assistant"
                  content == IF wh[t].pc = "add_user" THEN wh[t].user_message
                             ELSE wh[t].ai_response
                  got == get_conversation(conversations', messages', u,
                                          datetime_now').conversation
              IN /\ got.messages # <<>>
                 /\ Last(got.messages).role = role
                 /\ Last(got.messages).content = content
                 /\ got.message_count = before + 1]_vars

\* C7: once more than MAX_CONVERSATION_LENGTH turns were added to an existing
\* conversation, get_conversation returns exactly the MAX_CONVERSATION_LENGTH
\* most recently added, oldest first, message_count is the number added, and
\* the older rows are still in the table.
C7_BoundedWindow ==
    \A u \in Users :
        (conversations[u].present /\ Len(added[u]) > MAX_CONVERSATION_LENGTH) =>
            LET got == get_conversation(conversations, messages, u,
                                        datetime_now).conversation
                M == Len(added[u])
            IN /\ Len(got.messages) = MAX_CONVERSATION_LENGTH
               /\ \A k \in 1..MAX_CONVERSATION_LENGTH :
                     /\ got.messages[k].role =
                            added[u][M - MAX_CONVERSATION_LENGTH + k].role
                     /\ got.messages[k].content =
                            added[u][M - MAX_CONVERSATION_LENGTH + k].content
               /\ got.message_count = M
               /\ Cardinality(RowsOf(messages, u)) >= M

\* C7 witness: a conversation holds more turns than the window, whose first
\* and last differ.
C7_Witness ==
    \E u \in Users :
        /\ conversations[u].present
        /\ Len(added[u]) > MAX_CONVERSATION_LENGTH
        /\ added[u][1] # added[u][Len(added[u])]
        /\ InFlight = {}

\* C8: a cleanup deletes exactly the conversations last active strictly before
\* its cutoff and the messages of those users, changes nothing else, and
\* returns the number of conversations deleted.
C8_RetentionCorrectness ==
    [][cleanup_ret' # NoReturn =>
          \E hours \in CleanupHours :
              LET cutoff == datetime_now - hours
                  old == {u \in Users : /\ conversations[u].present
                                        /\ conversations[u].last_activity < cutoff}
                  Kept(row) == row.user_id \notin old
              IN /\ conversations' =
                        [u \in Users |-> IF u \in old THEN NoRow ELSE conversations[u]]
                 /\ messages' = SelectSeq(messages, Kept)
                 /\ cleanup_ret' = Cardinality(old)]_vars

\* C8 witness: a cleanup deleted a conversation and left another one, with
\* its messages, in place.
C8_Witness ==
    /\ cleanup_ret # NoReturn
    /\ cleanup_ret >= 1
    /\ \E u \in Users : conversations[u].present /\ RowsOf(messages, u) # {}

(* ------------------------------------------------------------------ *)
(* Claims about the webhook pipeline                                   *)
(* ------------------------------------------------------------------ *)

\* "sha256=" followed by the HMAC-SHA256 of the request body under APP_SECRET
ExpectedSignature(body) == Signed("sha256=", APP_SECRET, body)

\* C9: with a secret configured, a request whose signature header is not
\* exactly the expected one (a missing or empty header included) is answered
\* 401 and nothing else happens: no window, conversation or message changes
\* and nothing is sent.
C9_InvalidSignatureRejected ==
    (/\ last.status # 0
     /\ APP_SECRET # ""
     /\ last.signature # ExpectedSignature(last.body))
    => (/\ last.status = 401
        /\ last.stages = <<"verify">>
        /\ last.sent = <<>>
        /\ ~last.changed)

\* Texts that read as admin commands.
CommandTexts == {t \in RawTexts : Len(t) >= 2 /\ LowerToken(t[1]) = "/admin"}

\* A text message as the platform sends it, correctly signed.
SignedText(user_id, text) ==
    LET body == [type |-> "text", from |-> user_id, text |-> text]
    IN [signature |-> IF APP_SECRET = "" THEN NoSignature ELSE ExpectedSignature(body),
        body |-> body]

\* What the handler does with a request in the current state.
Handled(req, env) ==
    webhook(APP_SECRET, rate_limit_tracker, conversations, messages,
            time_time, datetime_now, req, env)

\* Two outcomes of the handler that are the same response, stages, replies,
\* rate window and store, but for the user's text kept in the store.
SameTreatment(a, b, text, other) ==
    /\ a.event.status = b.event.status
    /\ a.event.stages = b.event.stages
    /\ a.event.admin_response = b.event.admin_response
    /\ a.event.sent = b.event.sent
    /\ a.tracker = b.tracker
    /\ a.conversations = b.conversations
    /\ Len(a.messages) = Len(b.messages)
    /\ \A k \in DOMAIN a.messages :
          \/ a.messages[k] = b.messages[k]
          \/ /\ a.messages[k] = [b.messages[k] EXCEPT !.content = sanitize_input(text)]
             /\ b.messages[k].content = sanitize_input(other)

\* C10: for a sender outside ADMIN_USERS, handle_admin_command returns None
\* and leaves the store alone whatever the text, the handler treats a command
\* text exactly as the plain text "hi" of that sender, and the request handled
\* went to the rate limiter and got no admin reply.
C10_AdminGating ==
    /\ last.status = 0 =>
          \A user_id \in Users \ ADMIN_USERS :
              /\ \A text \in RawTexts :
                    handle_admin_command(conversations, messages, user_id, text,
                                         datetime_now)
                      = [reply |-> NoReply, conversations |-> conversations,
                         messages |-> messages]
              /\ \A env \in Envs :
                    \E plain \in {Handled(SignedText(user_id, <<"hi">>), env)} :
                        \A text \in CommandTexts :
                            SameTreatment(Handled(SignedText(user_id, text), env), plain,
                                          text, <<"hi">>)
    /\ (/\ last.status = 200
        /\ last.body.type = "text"
        /\ last.body.from \notin ADMIN_USERS) =>
          /\ last.admin_response = NoReply
          /\ \A k \in DOMAIN last.sent : last.sent[k].message.kind \notin AdminReplyKinds
          /\ \E k \in DOMAIN last.stages : last.stages[k] = "rate_limit"

\* C10 witness: "/admin stats" from a sender who is no administrator was
\* answered with the AI collaborator's reply.
C10_Witness ==
    /\ last.status = 200
    /\ last.body = [type |-> "text", from |-> "u1", text |-> <<"/admin", "stats">>]
    /\ Len(last.sent) = 1
    /\ last.sent[1].message.kind = "ai"
    /\ last.sent[1].to = "u1"

\* A step in which the handler takes a request and runs to its response.
Handling == last.status = 0 /\ last'.status # 0

\* The request handled passed the signature check of lines 460-464.
PassedSignature(event) ==
    APP_SECRET = "" \/ verify_webhook_signature(event.body, event.signature, APP_SECRET)

\* The request handled was a text message that passed the signature check.
Extracted(event) ==
    /\ event.status # 0
    /\ PassedSignature(event)
    /\ event.body.type = "text"

\* The kinds of reply in the transport calls of the request handled.
SentTo(event, to_number) ==
    {event.sent[k].message.kind : k \in {j \in DOMAIN event.sent : event.sent[j].to = to_number}}

\* The handler went through this stage.
Reached(event, stage) == \E k \in DOMAIN event.stages : event.stages[k] = stage

\* C11: when is_rate_limited rejects the sender of an event, the handler makes
\* one delivery of the fixed rate-limit text to that sender, does not call the
\* AI collaborator, leaves messages and conversations as they were and answers
\* 200.
C11_RateLimitShortCircuit ==
    [][(/\ Handling
        /\ Extracted(last')
        /\ handle_admin_command(conversations, messages, last'.body.from,
                                last'.body.text, datetime_now).reply = NoReply
        /\ is_rate_limited(rate_limit_tracker, last'.body.from, time_time).limited)
       => (/\ last'.status = 200
           /\ last'.sent = <<[to |-> last'.body.from,
                               message |-> Reply("rate_limit", "", <<>>),
                               delivered |-> last'.env.delivered]>>
           /\ ~Reached(last', "chat")
           /\ ~Reached(last', "ai")
           /\ messages' = messages
           /\ conversations' = conversations)]_vars

\* C11 witness: a sender with two persisted turns was sent the rate-limit text.
C11_Witness ==
    /\ last.status = 200
    /\ last.body.from = "u1"
    /\ SentTo(last, "u1") = {"rate_limit"}
    /\ CountOf(conversations, "u1") = 2
    /\ Len(rate_limit_tracker["u1"]) = RATE_LIMIT_PER_MINUTE

\* C12: when the fixed apologetic fallback is what the handler delivers for an
\* event, no turn of the event was persisted: no row was added to messages
\* and the sender's message_count is what it was.
C12_FallbackNotPersisted ==
    (last.status # 0 /\ "ai_error" \in SentTo(last, last.body.from))
    => (last.persisted = 0 /\ last.counted = 0)

\* get_conversation or add_message raised while the event was processed.
StorageFailed(event) ==
    /\ Extracted(event)
    /\ Reached(event, "chat")
    /\ sanitize_input(event.body.text) # <<>>
    /\ event.env.db_error \in {"get_conversation", "add_user", "add_assistant"}

\* C13: when get_conversation or add_message fails while an event is
\* processed, POST /webhook answers with a server error, never 200.
C13_StorageFailureSurfaced ==
    StorageFailed(last) => last.status >= 500

\* C14: a payload that passes the signature check and is no text message in
\* the expected envelope is ignored: 200, and no rate-limit update, AI call,
\* persistence or delivery.
C14_IrrelevantPayloadIgnored ==
    (last.status # 0 /\ PassedSignature(last) /\ last.body.type # "text")
    => (/\ last.status = 200
        /\ last.stages = <<"verify", "extract">>
        /\ last.sent = <<>>
        /\ ~last.changed)

\* C15: for every event that passes the signature check and extraction, the
\* handler makes at least one transport call to the sender with a text.
C15_ReplyAlwaysAttempted ==
    Extracted(last)
    => \E k \in DOMAIN last.sent :
           /\ last.sent[k].to = last.body.from
           /\ last.sent[k].message # NoReply

\* The same request handled in the same state with a transport that works.
TwinDelivered(event) ==
    webhook(APP_SECRET, rate_limit_tracker, conversations, messages, time_time,
            datetime_now, [signature |-> event.signature, body |-> event.body],
            [event.env EXCEPT !.delivered = TRUE])

\* C16: when a transport call of a reply fails, send_whatsapp_message returns
\* False, the response is still 200, and the store and the rate window are as
\* a working transport would have left them.
C16_DeliveryFailureTolerated ==
    [][(Handling /\ last'.sent # <<>> /\ ~last'.env.delivered)
       => \E twin \in {TwinDelivered(last')} :
              /\ ~Success(last'.sent)
              /\ last'.status = 200
              /\ twin.event.status = 200
              /\ Success(twin.event.sent)
              /\ conversations' = twin.conversations
              /\ messages' = twin.messages
              /\ rate_limit_tracker' = twin.tracker]_vars

\* C16 witness: both turns of an exchange were persisted and the delivery of
\* the AI reply failed.
C16_Witness ==
    /\ last.status = 200
    /\ last.persisted = 2
    /\ Len(last.sent) = 1
    /\ last.sent[1].message.kind = "ai"
    /\ ~last.sent[1].delivered

\* C17: an admitted text event of a non-admin sender without a conversation,
\* with the AI call and the store working, creates the conversation, appends
\* the user turn and then the assistant turn, leaves message_count at 2 and
\* hands the AI reply to the transport as one part.
C17_SuccessfulExchange ==
    [][(/\ Handling
        /\ Extracted(last')
        /\ last'.body.from \notin ADMIN_USERS
        /\ ~is_rate_limited(rate_limit_tracker, last'.body.from, time_time).limited
        /\ ~conversations[last'.body.from].present
        /\ sanitize_input(last'.body.text) # <<>>
        /\ last'.env.ai # "raise"
        /\ last'.env.db_error \notin {"get_conversation", "add_user", "add_assistant"})
       => LET user_id == last'.body.from
              n == Len(messages)
          IN /\ conversations'[user_id].present
             /\ conversations'[user_id].message_count = 2
             /\ Len(messages') = n + 2
             /\ SubSeq(messages', 1, n) = messages
             /\ messages'[n + 1].user_id = user_id
             /\ messages'[n + 1].role = "user"
             /\ messages'[n + 1].content = sanitize_input(last'.body.text)
             /\ messages'[n + 2].user_id = user_id
             /\ messages'[n + 2].role = "assistant"
             /\ messages'[n + 2].content = last'.env.ai
             /\ last'.sent = <<[to |-> user_id,
                                 message |-> Reply("ai", last'.env.ai, <<>>),
                                 delivered |-> last'.env.delivered]>>]_vars

\* C17 witness: "hi" of a new user was answered by the AI collaborator and
\* left a conversation of two messages.
C17_Witness ==
    /\ last.status = 200
    /\ last.body = [type |-> "text", from |-> "u1", text |-> <<"hi">>]
    /\ last.persisted = 2
    /\ last.counted = 2
    /\ conversations["u1"].message_count = 2
    /\ Cardinality(RowsOf(messages, "u1")) = 2
    /\ SentTo(last, "u1") = {"ai"}
    /\ Len(last.sent) = 1
    /\ last.sent[1].delivered

(* ------------------------------------------------------------------ *)
(* Claims about split_long_message                                     *)
(* ------------------------------------------------------------------ *)

\* C18: every part returned for a text longer than max_length is a non-empty
\* string, also when the text begins with, ends with or is made of whitespace.
C18_NoEmptyChunk ==
    (split.pc = "returned" /\ Len(split.input) > split.max_length)
    => \A k \in DOMAIN split.parts : split.parts[k] # <<>>

\* C19: every step of the call leaves parts that are each at most max_length
\* long, every cut leaves a shorter message, and the length of the message
\* plus the number of cuts never exceeds len(text): the loop ends after at
\* most len(text) cuts.
C19_ChunkBoundAndProgress ==
    [][/\ \A k \in DOMAIN split'.parts : Len(split'.parts[k]) <= split'.max_length
       /\ split'.cuts # split.cuts => Len(split'.message) < Len(split.message)
       /\ Len(split'.message) + split'.cuts <= Len(split'.input)]_vars

\* C19 witness: a text returned in three parts or more, none empty, one part
\* as long as max_length allows and one shorter.
C19_Witness ==
    /\ split.pc = "returned"
    /\ split.max_length >= 3
    /\ split.cuts >= 2
    /\ Len(split.parts) >= 3
    /\ \A k \in DOMAIN split.parts : split.parts[k] # <<>>
    /\ \E k \in DOMAIN split.parts : Len(split.parts[k]) = split.max_length
    /\ \E k \in DOMAIN split.parts : Len(split.parts[k]) < split.max_length

RECURSIVE Concat(_)
\* The parts joined in order.
Concat(parts) == IF parts = <<>> THEN <<>> ELSE Head(parts) \o Concat(Tail(parts))

\* The characters of a text that are no whitespace, in order.
NonWhitespace(text) ==
    LET Solid(c) == c \notin Whitespace
    IN SelectSeq(text, Solid)

RECURSIVE OnlyWhitespaceRemoved(_, _)
\* The parts are consecutive pieces of the text, in order, and what lies
\* before, between and after them is whitespace.
OnlyWhitespaceRemoved(text, parts) ==
    IF parts = <<>> THEN NonWhitespace(text) = <<>>
    ELSE \E skip \in 0..(Len(text) - Len(Head(parts))) :
            /\ NonWhitespace(Prefix(text, skip)) = <<>>
            /\ SubSeq(text, skip + 1, skip + Len(Head(parts))) = Head(parts)
            /\ OnlyWhitespaceRemoved(Suffix(text, skip + Len(Head(parts))), Tail(parts))

\* C20: the non-whitespace characters of the parts, joined in order, are those
\* of the input, and the parts are pieces of the input with only whitespace
\* removed between them; while the call runs the same holds of the parts
\* followed by the message still to split.
C20_ReassemblyComplete ==
    LET pieces == IF split.pc = "returned" THEN split.parts
                  ELSE Append(split.parts, split.message)
    IN /\ NonWhitespace(Concat(pieces)) = NonWhitespace(split.input)
       /\ OnlyWhitespaceRemoved(split.input, pieces)

\* C20 witness: a text returned in several parts that are together shorter
\* than the text, whitespace having been trimmed where it was cut.
C20_Witness ==
    /\ split.pc = "returned"
    /\ Len(split.parts) >= 2
    /\ \A k \in DOMAIN split.parts : split.parts[k] # <<>>
    /\ Len(Concat(split.parts)) < Len(split.input)
    /\ \E k \in DOMAIN split.input : k > 1 /\ k < Len(split.input)
                                       /\ split.input[k] \in Whitespace
                                       /\ split.input[1] = "a"

\* C21: a text of at most max_length characters is returned as exactly one
\* part, and that part is the text with leading and trailing whitespace
\* trimmed.
C21_ShortTextOneTrimmedChunk ==
    (split.pc = "returned" /\ Len(split.input) <= split.max_length)
    => split.parts = <<Strip(split.input)>>

(* ------------------------------------------------------------------ *)
(* Claims about admin commands in the pipeline                         *)
(* ------------------------------------------------------------------ *)

\* What handle_admin_command returns for the request handled by this step.
AdminReplyBefore(event) ==
    handle_admin_command(conversations, messages, event.body.from, event.body.text,
                         datetime_now).reply

\* The store call of the admin command of this request raised.
AdminStoreFailed(event) ==
    event.env.db_error = "admin" /\ AdminStoreCall(event.body.from, event.body.text)

\* C22: when handle_admin_command returns the stats, help or unknown-command
\* reply, the handler hands that reply to the transport, does not enter
\* chat_with_ai, and leaves messages and conversations as they were.
C22_AdminExchangeNotPersisted ==
    [][(/\ Handling
        /\ Extracted(last')
        /\ ~AdminStoreFailed(last')
        /\ AdminReplyBefore(last').kind \in {"admin_stats", "admin_help", "admin_unknown"})
       => (/\ last'.status = 200
           /\ last'.sent = <<[to |-> last'.body.from,
                               message |-> AdminReplyBefore(last'),
                               delivered |-> last'.env.delivered]>>
           /\ last'.sent[1].message.kind \in AdminReplyKinds
           /\ ~Reached(last', "chat")
           /\ ~Reached(last', "ai")
           /\ messages' = messages
           /\ conversations' = conversations)]_vars

\* C22 witness: an administrator with a conversation of two messages was sent
\* the statistics, and the conversation still has two.
C22_Witness ==
    /\ last.status = 200
    /\ last.body = [type |-> "text", from |-> "admin", text |-> <<"/admin", "stats">>]
    /\ SentTo(last, "admin") = {"admin_stats"}
    /\ last.persisted = 0
    /\ conversations["admin"].present
    /\ conversations["admin"].message_count = 2
    /\ Cardinality(RowsOf(messages, "admin")) = 2

(* ------------------------------------------------------------------ *)
(* Claims about db_lock and the cleanup thread                         *)
(* ------------------------------------------------------------------ *)

\* C23: a thread inside the AI completion call or a transport call does not
\* hold db_lock; whoever holds it is inside one get_conversation, add_message
\* or cleanup_old_conversations call.
C23_LockExcludesNetwork ==
    /\ \A t \in Threads :
          /\ lk[t].pc \in {"ai", "send"} => db_lock # t
          /\ db_lock = t => lk[t].pc \in LockedCalls
    /\ db_lock = "sched" => sched.pc = "cleanup"
    /\ db_lock \in Threads \cup {"sched", "free"}

\* C23 witness: one thread is in the AI call and another in a transport call
\* while the cleanup thread holds the lock.
C23_Witness ==
    /\ lk["t1"].pc = "ai"
    /\ lk["t2"].pc = "send"
    /\ db_lock = "sched"
    /\ messages # <<>>

\* A cleanup cycle has ended, with or without an error.
CycleEnded == sched.outcome \in {"ok", "failed"} /\ db_lock # "sched"

\* The cleanup thread is inside cleanup_old_conversations.
CycleRunning == sched.pc = "cleanup" /\ db_lock = "sched"

\* C24: a cleanup cycle that raises leaves the store as it was and the thread
\* in its loop, and after every cycle, failed or not, another call of
\* cleanup_old_conversations(CONVERSATION_TIMEOUT_HOURS) eventually runs.
C24_SchedulerSurvives ==
    /\ [][(CycleRunning /\ ~CycleRunning' /\ sched'.outcome = "failed")
          => (/\ conversations' = conversations
              /\ messages' = messages
              /\ sched'.pc = "sleep")]_vars
    /\ [](sched.pc \in {"sleep", "cleanup"})
    /\ (CycleEnded ~> CycleRunning)

\* C24 witness: the cycle after a failed one is running with an old
\* conversation still to delete.
C24_Witness ==
    /\ sched.outcome = "failed"
    /\ CycleRunning
    /\ OldConversations(conversations, datetime_now - CONVERSATION_TIMEOUT_HOURS) # {}

\* Texts an administrator may send, each with the reply the command grammar
\* gives it: "None" for a text handled as a chat message.
AdminCases ==
    {[text |-> <<>>, kind |-> "None"],
     [text |-> <<"hi">>, kind |-> "None"],
     [text |-> <<"stats">>, kind |-> "None"],
     [text |-> <<"hi", "stats">>, kind |-> "None"],
     [text |-> <<"stats", "/admin">>, kind |-> "None"],
     [text |-> <<"/admin">>, kind |-> "None"],
     [text |-> <<"/ADMIN">>, kind |-> "None"],
     [text |-> <<"/admin", "stats">>, kind |-> "admin_stats"],
     [text |-> <<"/admin", "STATS">>, kind |-> "admin_stats"],
     [text |-> <<"/admin", "stats", "hi">>, kind |-> "admin_stats"],
     [text |-> <<"/admin", "cleanup">>, kind |-> "admin_cleanup"],
     [text |-> <<"/ADMIN", "Cleanup">>, kind |-> "admin_cleanup"],
     [text |-> <<"/admin", "help">>, kind |-> "admin_help"],
     [text |-> <<"/admin", "Help">>, kind |-> "admin_help"],
     [text |-> <<"/admin", "frobnicate">>, kind |-> "admin_unknown"],
     [text |-> <<"/admin", "hi", "stats">>, kind |-> "admin_unknown"],
     [text |-> <<"/admin", "/admin">>, kind |-> "admin_unknown"]}

\* No conversation and no message is stored.
EmptyStore == messages = <<>> /\ \A u \in Users : ~conversations[u].present

\* C25: for an administrator, handle_admin_command returns None for a text
\* that does not start with /admin or has no second token, the stats, cleanup
\* or help reply when the second token is that word in any letter case, and
\* the unknown-command reply for any other second token; on an empty store the
\* stats and cleanup replies carry zero counts.  The handler answers an
\* administrator's text with that reply.
C25_AdminCommandGrammar ==
    /\ \A user_id \in ADMIN_USERS : \A case \in AdminCases :
          \E out \in {handle_admin_command(conversations, messages, user_id,
                                           case.text, datetime_now)} :
             /\ out.reply.kind = case.kind
             /\ case.kind = "None" =>
                   /\ out.reply = NoReply
                   /\ out.conversations = conversations
                   /\ out.messages = messages
             /\ case.kind \in {"admin_help", "admin_unknown"} => out.reply.counts = <<>>
             /\ (EmptyStore /\ case.kind = "admin_stats") => out.reply.counts = <<0, 0, 0>>
             /\ (EmptyStore /\ case.kind = "admin_cleanup") => out.reply.counts = <<0>>
    /\ \A case \in AdminCases :
          (/\ last.status = 200
           /\ Extracted(last)
           /\ last.body.from \in ADMIN_USERS
           /\ last.body.text = case.text)
          => last.admin_response.kind = case.kind

\* C25 witness: an administrator's "/ADMIN Cleanup" on an empty store was
\* answered with the cleanup reply counting no conversation.
C25_Witness ==
    /\ last.status = 200
    /\ last.body = [type |-> "text", from |-> "admin", text |-> <<"/ADMIN", "Cleanup">>]
    /\ last.admin_response = Reply("admin_cleanup", "", <<0>>)
    /\ SentTo(last, "admin") = {"admin_cleanup"}
    /\ EmptyStore

\* The row of the user that comes just before row i in the user's history,
\* read oldest first; 0 when row i is the first.
RowBefore(msgs, i) ==
    LET earlier == {j \in RowsOf(msgs, msgs[i].user_id) : j < i}
    IN IF earlier = {} THEN 0 ELSE CHOOSE j \in earlier : \A k \in earlier : k <= j

\* C26: however the requests of one user interleave, every assistant turn of
\* the user's persisted history comes immediately after a user turn, so that
\* the history is made of whole exchanges and the turns of two exchanges are
\* not interleaved.  Stated for the histories written before any cleanup
\* cycle has ended.
C26_TurnsPaired ==
    sched.outcome = "none" =>
        \A i \in DOMAIN messages :
            messages[i].role = "assistant" =>
                /\ RowBefore(messages, i) # 0
                /\ messages[RowBefore(messages, i)].role = "user"

\* The positions of a stage among the stages the handler went through.
StagePositions(event, stage) == {k \in DOMAIN event.stages : event.stages[k] = stage}

\* C27: a request for which handle_admin_command returns a reply leaves
\* rate_limit_tracker untouched and is answered with that reply whatever the
\* sender's window holds; a request for which it returns None goes through
\* is_rate_limited once, and no request reaches the AI call without having
\* gone through it once before.
C27_AdminBypassesRateLimit ==
    [][Handling =>
        /\ (/\ Extracted(last')
            /\ ~AdminStoreFailed(last')
            /\ AdminReplyBefore(last') # NoReply)
           => (/\ rate_limit_tracker' = rate_limit_tracker
               /\ StagePositions(last', "rate_limit") = {}
               /\ last'.status = 200
               /\ last'.sent = <<[to |-> last'.body.from,
                                   message |-> AdminReplyBefore(last'),
                                   delivered |-> last'.env.delivered]>>)
        /\ (Extracted(last') /\ AdminReplyBefore(last') = NoReply)
           => (/\ Cardinality(StagePositions(last', "rate_limit")) = 1
               /\ rate_limit_tracker' =
                      is_rate_limited(rate_limit_tracker, last'.body.from, time_time).tracker)
        /\ Cardinality(StagePositions(last', "rate_limit")) <= 1
        /\ \A k \in StagePositions(last', "chat") \cup StagePositions(last', "ai") :
               \E j \in StagePositions(last', "rate_limit") : j < k]_vars

\* C27 witness: an administrator whose window is full was answered
\* "/admin help", and the window is still the same.
C27_Witness ==
    /\ last.status = 200
    /\ last.body = [type |-> "text", from |-> "admin", text |-> <<"/admin", "help">>]
    /\ SentTo(last, "admin") = {"admin_help"}
    /\ ~last.changed
    /\ Len(rate_limit_tracker["admin"]) = RATE_LIMIT_PER_MINUTE
    /\ is_rate_limited(rate_limit_tracker, "admin", time_time).limited

====
